---- MODULE Spec2Model ----
(***************************************************************************)
(* A model of the dashboard core of allennlp-manager: the page registry,   *)
(* the callback metadata attached by Page.callback, the hook pipeline      *)
(* around a callback invocation, the page store round trip and the         *)
(* LogStream page.                                                         *)
(***************************************************************************)
EXTENDS Integers, Sequences, FiniteSets, TLC

VARIABLES
    phase,      \* "startup" (modules being imported), "serving", "failed"
    registry,   \* Registrable._registry[Page]: a set of <<route, page class>>
    pending,    \* page classes whose definition has not executed yet
    decl,       \* the attributes mark_callback set on render_log_stream_content
    regLog,     \* the registration hooks that have run, in order
    logLen,     \* number of lines the log file holds
    view,       \* per session: what the last page load resolved to
    store,      \* per session: the client-held dcc.Store data (_store_name)
    shown,      \* per session: the lines put into log-stream-content so far
    inv,        \* per session: the callback invocation in flight
    serde,      \* the value under test of the serialization round trip
    mirror,     \* per session: the data of the stores named in _callback_stores
    db          \* the users table, and the last call on UserService

vars ==
    <<phase, registry, pending, decl, regLog, logLen, view, store, shown, inv, serde,
      mirror, db>>

----------------------------------------------------------------------------
(* Bounds *)

MaxLines == 2

Sessions == {"s1", "s2"}

MaxLevel == 1

\* No request is taken once a session has been sent this many lines, less MaxLines.
MaxShown == 4

\* Callback invocations one session makes.
MaxCalls == 2

Levels == 0 .. MaxLevel

----------------------------------------------------------------------------
(* Serializable types: the classes of the test and of the LogStream page *)

ScalarTypes == {"int", "str", "bool"}

ListTypes == {"List[Inner]"}

ElemType(T) == IF T = "List[Inner]" THEN "Inner" ELSE "NoneType"

InnerFields == << [name |-> "x", type |-> "str"], [name |-> "_y", type |-> "str"] >>

OuterFields ==
    << [name |-> "a", type |-> "int"],
       [name |-> "b", type |-> "Inner"],
       [name |-> "c", type |-> "List[Inner]"] >>

SessionStateFields == << [name |-> "stream", type |-> "LogStreamService"] >>

ParamsFields == << [name |-> "path", type |-> "str"], [name |-> "live", type |-> "bool"] >>

LogStreamServiceFields ==
    << [name |-> "path", type |-> "str"], [name |-> "pos", type |-> "int"] >>

Fields(T) ==
    CASE T = "Inner" -> InnerFields
      [] T = "Outer" -> OuterFields
      [] T = "LogStream.SessionState" -> SessionStateFields
      [] T = "LogStream.Params" -> ParamsFields
      [] T = "LogStreamService" -> LogStreamServiceFields

FieldNames(T) == { Fields(T)[i].name : i \in DOMAIN Fields(T) }

FieldType(T, n) == Fields(T)[CHOOSE i \in DOMAIN Fields(T) : Fields(T)[i].name = n].type

\* The constructor argument of a field: the field's name without the leading
\* underscore.
InitName(n) == IF n = "_y" THEN "y" ELSE n

\* The generated __init__: takes the unmarked names, stores under the field names.
Construct(T, kwargs) ==
    [a \in FieldNames(T) \cup {"cls"} |-> IF a = "cls" THEN T ELSE kwargs[InitName(a)]]

RECURSIVE ser(_, _)
ser(T, v) ==
    IF T \in ScalarTypes THEN v
    ELSE IF T \in ListTypes THEN [i \in DOMAIN v |-> ser(ElemType(T), v[i])]
    ELSE [n \in FieldNames(T) |-> ser(FieldType(T, n), v[n])]

serialize(v) == ser(v["cls"], v)

RECURSIVE deserialize(_, _)

\* deserialize that hands nested values to the constructor as plain data.
deserialize_Shallow(T, data) ==
    IF T \in ScalarTypes \cup ListTypes THEN data
    ELSE Construct(T,
            [k \in { InitName(n) : n \in FieldNames(T) } |->
                data[CHOOSE m \in FieldNames(T) : InitName(m) = k]])

deserialize(T, data) ==
    IF T \in ScalarTypes THEN data
    ELSE IF T \in ListTypes THEN [i \in DOMAIN data |-> deserialize(ElemType(T), data[i])]
    ELSE Construct(T,
            [k \in { InitName(n) : n \in FieldNames(T) } |->
                LET n == CHOOSE m \in FieldNames(T) : InitName(m) = k
                IN  deserialize(FieldType(T, n), data[n])])

----------------------------------------------------------------------------
(* The log file and the log-tail service *)

LogPath == "/tmp/x.log"

MissingPath == "/tmp/missing.log"

\* Line i of the log file is identified by its number.
LogLines(len) == [i \in 1 .. len |-> i]

LogStreamService(path) == Construct("LogStreamService", [path |-> path, pos |-> 0])

should_read(stream, len) == stream["pos"] < len

readlines(stream, len) ==
    [lines  |-> SubSeq(LogLines(len), stream["pos"] + 1, len),
     stream |-> [stream EXCEPT !["pos"] = len]]

----------------------------------------------------------------------------
(* Page base contract and the LogStream page *)

NoPage == [cls |-> "NoneType"]

NoStore == [none |-> TRUE]

Page_init(state, params) == [cls |-> "LogStream", s |-> state, p |-> params]

Params(path, live) == Construct("LogStream.Params", [path |-> path, live |-> live])

from_params(params) ==
    Page_init(
        Construct("LogStream.SessionState", [stream |-> LogStreamService(params["path"])]),
        params)

\* from_store that goes through from_params with the restored parameters.
from_store_ViaParams(data) == from_params(deserialize("LogStream.Params", data.p))

\* from_store that restores the page from a store the process holds for the
\* page class, whichever session it came from, not from the store of the request.
from_store_ProcessWide(data) ==
    LET held == IF \A t \in Sessions : store[t] = NoStore
                THEN data
                ELSE store[CHOOSE t \in Sessions : store[t] # NoStore]
    IN  Page_init(deserialize("LogStream.SessionState", held.s),
                  deserialize("LogStream.Params", held.p))

from_store(data) ==
    Page_init(deserialize("LogStream.SessionState", data.s),
              deserialize("LogStream.Params", data.p))

\* to_store that serializes a freshly built state instead of the page's own.
to_store_Fresh(page) == [s |-> serialize(from_params(page.p).s), p |-> serialize(page.p)]

to_store(page) == [s |-> serialize(page.s), p |-> serialize(page.p)]

\* get_elements reads the stream: the page it leaves behind and the lines shown.
get_elements(page, len) ==
    LET r == readlines(page.s["stream"], len)
    IN  [page  |-> [page EXCEPT !.s = [page.s EXCEPT !["stream"] = r.stream]],
         lines |-> r.lines]

\* The ids of the stores of the LogStream page: one named by _store_name and one
\* per callback, named in _callback_stores.
Page_store_name == "LogStream-store"

Page_callback_stores == << "LogStream-render_log_stream_content-store" >>

CallbackStores == { Page_callback_stores[i] : i \in DOMAIN Page_callback_stores }

NoMirror == [n \in CallbackStores |-> NoStore]

\* render that takes the store snapshot before building the elements.
render_StoreFirst(page, len) ==
    LET data == to_store(page)
        elements == get_elements(page, len)
    IN  [store |-> data, callback_stores |-> [n \in CallbackStores |-> data],
         lines |-> elements.lines, page |-> elements.page]

\* render that gives the callback stores a snapshot taken before the elements
\* were built.
render_StaleCallbackStores(page, len) ==
    LET before == to_store(page)
        elements == get_elements(page, len)
        data == to_store(elements.page)
    IN  [store |-> data, callback_stores |-> [n \in CallbackStores |-> before],
         lines |-> elements.lines, page |-> elements.page]

\* The first dcc.Store of the rendered page (store), those that follow it
\* (callback_stores), and the elements.
render(page, len) ==
    LET elements == get_elements(page, len)
        data == to_store(elements.page)
    IN  [store |-> data, callback_stores |-> [n \in CallbackStores |-> data],
         lines |-> elements.lines, page |-> elements.page]

----------------------------------------------------------------------------
(* Page registry: Registrable.register and the route lookup *)

LogStreamRoute_Typo == "/logstream"

LogStreamRoute == "/log-stream"

Routes == {LogStreamRoute, "/other"}

LookupRoutes == Routes \cup {"/unknown"}

PageClasses == {"LogStream", "Page2"}

Registered(reg, route) == \E e \in reg : e[1] = route

\* register that lets a later registration replace the binding of a route.
register_Overwrite(reg, route, cls) ==
    [ok |-> TRUE, registry |-> { e \in reg : e[1] # route } \cup {<<route, cls>>}]

register(reg, route, cls) ==
    IF Registered(reg, route)
    THEN [ok |-> FALSE, registry |-> reg]
    ELSE [ok |-> TRUE, registry |-> reg \cup {<<route, cls>>}]

get(reg, route) ==
    IF Registered(reg, route)
    THEN (CHOOSE e \in reg : e[1] = route)[2]
    ELSE "UnknownRouteError"

----------------------------------------------------------------------------
(* Hooks and callback metadata *)

None == [none |-> TRUE]

Some(n) == [none |-> FALSE, v |-> n]

DEFAULT_REGISTRATION_HOOKS == << "log_registration" >>

\* The default pre-hooks with the permission check first.
DEFAULT_PRE_HOOKS_CheckFirst == << "ensure_permissions", "log_received" >>

DEFAULT_PRE_HOOKS == << "log_received", "ensure_permissions" >>

DEFAULT_POST_HOOKS == << "log_success" >>

DEFAULT_ERR_HOOKS == << "log_err" >>

DEFAULT_IGNORE_HOOKS == << "log_ignore" >>

\* The pre-hook lists a declaration is given: the default, the default reversed,
\* and one without the permission check.
PreHookLists ==
    { DEFAULT_PRE_HOOKS, << "ensure_permissions", "log_received" >>, << "log_received" >> }

\* The principal of a request: a logged-in user, or nobody.
NoUser == [anonymous |-> TRUE]

User(permissions) == [anonymous |-> FALSE, permissions |-> permissions]

Principals == {NoUser} \cup { User(n) : n \in Levels }

\* current_user.permissions; a request without a principal has level 0.
current_user_permissions(principal) ==
    IF principal.anonymous THEN 0 ELSE principal.permissions

\* The outcome hook lists a declaration is given: the defaults, and lists with
\* hooks of the application, one of which (faulty_hook) raises.
PostHookLists ==
    { DEFAULT_POST_HOOKS, << "log_success", "notify_success" >>,
      << "faulty_hook", "log_success" >> }

ErrHookLists ==
    { DEFAULT_ERR_HOOKS, << "log_err", "notify_err" >>,
      << "log_err", "faulty_hook", "notify_err" >> }

IgnoreHookLists == { DEFAULT_IGNORE_HOOKS, << "log_ignore", "faulty_hook" >> }

HookRaises(h) == h = "faulty_hook"

\* Running the hooks of an outcome in order: the hooks that ran (up to and with
\* the first that raises) and whether one raised.
RunHooks(hooks) ==
    LET raising == { i \in DOMAIN hooks : HookRaises(hooks[i]) }
        k == IF raising = {} THEN 0
             ELSE CHOOSE i \in raising : \A j \in raising : i <= j
    IN  [ran    |-> IF k = 0 THEN hooks ELSE SubSeq(hooks, 1, k),
         raised |-> k # 0]

PermissionArgs == {None} \cup { Some(n) : n \in Levels }

log_received(permissions, user) == "ok"

\* Page.permissions: the minimum permissions level required to view the page.
Page_permissions == 1

\* ensure_permissions that falls back on the page's level when the callback
\* declares none.
ensure_permissions_PageFallback(permissions, user) ==
    LET required == IF permissions.none THEN Page_permissions ELSE permissions.v
    IN  IF user < required THEN "NotPermittedError" ELSE "ok"

\* ensure_permissions with <= for <: a principal at the required level is rejected.
ensure_permissions_OffByOne(permissions, user) ==
    IF ~permissions.none /\ user <= permissions.v THEN "NotPermittedError" ELSE "ok"

ensure_permissions(permissions, user) ==
    IF ~permissions.none /\ user < permissions.v THEN "NotPermittedError" ELSE "ok"

\* What running pre-hook h does: "ok" when it returns, else the error it raises.
RunPreHook(h, permissions, user) ==
    IF h = "ensure_permissions"
    THEN ensure_permissions(permissions, user)
    ELSE log_received(permissions, user)

\* The mutating argument of Page.callback: a declaration gives it or leaves it
\* out.
MutatingArgs == {None} \cup { Some(b) : b \in BOOLEAN }

\* A callback declared without a mutating argument does not mutate.
callback_mutating_DefaultFalse(arg) == IF arg.none THEN FALSE ELSE arg.v

\* The value of the mutating parameter of Page.callback (mutating: bool = True).
callback_mutating(arg) == IF arg.none THEN TRUE ELSE arg.v

Undeclared == [is_callback |-> FALSE]

\* The registration hooks of a declared callback run, in order.
RunRegistrationHooks(method) == method.registration_hooks

\* mark_callback that stores the err-hooks as the post-hooks and the post-hooks
\* as the err-hooks.
mark_callback_SwapHooks(mutating, registration_hooks, pre_hooks, post_hooks, err_hooks, ignore_hooks, permissions) ==
    [is_callback        |-> TRUE,
     is_mutating        |-> mutating,
     registration_hooks |-> registration_hooks,
     pre_hooks          |-> pre_hooks,
     post_hooks         |-> err_hooks,
     err_hooks          |-> post_hooks,
     ignore_hooks       |-> ignore_hooks,
     permissions        |-> permissions]

\* mark_callback that stores the registration hooks as the pre-hooks.
mark_callback_RegAsPre(mutating, registration_hooks, pre_hooks, post_hooks, err_hooks, ignore_hooks, permissions) ==
    [is_callback        |-> TRUE,
     is_mutating        |-> mutating,
     registration_hooks |-> registration_hooks,
     pre_hooks          |-> registration_hooks,
     post_hooks         |-> post_hooks,
     err_hooks          |-> err_hooks,
     ignore_hooks       |-> ignore_hooks,
     permissions        |-> permissions]

mark_callback(mutating, registration_hooks, pre_hooks, post_hooks, err_hooks, ignore_hooks, permissions) ==
    [is_callback        |-> TRUE,
     is_mutating        |-> mutating,
     registration_hooks |-> registration_hooks,
     pre_hooks          |-> pre_hooks,
     post_hooks         |-> post_hooks,
     err_hooks          |-> err_hooks,
     ignore_hooks       |-> ignore_hooks,
     permissions        |-> permissions]

\* The method body without the should_read() test: it returns what readlines() gives.
render_log_stream_content_NoGuard(page, len, fails) ==
    LET r == readlines(page.s["stream"], len)
        after == [page EXCEPT !.s = [page.s EXCEPT !["stream"] = r.stream]]
    IN  IF fails /\ should_read(page.s["stream"], len)
        THEN [kind |-> "raise", page |-> after, lines |-> << >>]
        ELSE [kind |-> "return", page |-> after, lines |-> r.lines]

\* The method body of LogStream.render_log_stream_content. fails: a line that
\* format_log_line cannot format, met after readlines() has consumed the lines.
render_log_stream_content(page, len, fails) ==
    IF ~should_read(page.s["stream"], len)
    THEN [kind |-> "PreventUpdate", page |-> page, lines |-> << >>]
    ELSE LET r == readlines(page.s["stream"], len)
             after == [page EXCEPT !.s = [page.s EXCEPT !["stream"] = r.stream]]
         IN  IF fails
             THEN [kind |-> "raise", page |-> after, lines |-> << >>]
             ELSE [kind |-> "return", page |-> after, lines |-> r.lines]

----------------------------------------------------------------------------
(* State *)

\* What a page load left: the route asked for, what it resolved to (cls), how the
\* load ended (result), and the store and lines of the rendered page; path is the
\* path parameter of the URL.
NoView ==
    [route |-> "", path |-> "", cls |-> "", result |-> "", store |-> NoStore, lines |-> << >>]

\* No invocation in flight; calls counts the invocations the session has made and
\* cid is the callback id of the one in flight (0: none).
Idle(calls) ==
    [st      |-> "REGISTERED",
     calls   |-> calls,
     cid     |-> 0,
     user    |-> 0,
     anon    |-> FALSE,
     blob    |-> NoStore,
     page    |-> NoPage,
     trace   |-> << >>,
     error   |-> "",
     outcome |-> "",
     out     |-> << >>,
     updated |-> FALSE]

Terminal == {"REJECTED", "SUCCEEDED", "FAILED", "IGNORED"}

NoSerde == [stage |-> "off"]

\* No users table in use.
NoDb == [rows |-> << >>, unique |-> TRUE, last |-> [op |-> ""]]

Init ==
    /\ phase = "startup"
    /\ registry = {}
    /\ pending = PageClasses
    /\ decl = Undeclared
    /\ regLog = << >>
    /\ logLen = 0
    /\ view = [s \in Sessions |-> NoView]
    /\ store = [s \in Sessions |-> NoStore]
    /\ shown = [s \in Sessions |-> << >>]
    /\ inv = [s \in Sessions |-> Idle(0)]
    /\ serde = NoSerde
    /\ mirror = [s \in Sessions |-> NoMirror]
    /\ db = NoDb

----------------------------------------------------------------------------
(* Startup: the page modules are imported *)

\* @Page.callback(...) on render_log_stream_content; the registration hooks run
\* as the callback is declared.
DeclareCallback(mutating, pre_hooks, permissions) ==
    /\ phase = "startup"
    /\ "LogStream" \in pending
    /\ ~decl.is_callback
    /\ decl' = mark_callback(callback_mutating(mutating),
                             DEFAULT_REGISTRATION_HOOKS, pre_hooks,
                             DEFAULT_POST_HOOKS, DEFAULT_ERR_HOOKS,
                             DEFAULT_IGNORE_HOOKS, permissions)
    /\ regLog' = regLog \o RunRegistrationHooks(decl')
    /\ UNCHANGED <<phase, registry, pending, logLen, view, store, shown, inv, serde, mirror, db>>

\* @Page.register(route) on a page class; a route already taken is an error that
\* ends the import.
RegisterPage(cls, route) ==
    /\ phase = "startup"
    /\ cls \in pending
    /\ cls = "LogStream" => (route = LogStreamRoute /\ decl.is_callback)
    /\ LET r == register(registry, route, cls)
       IN  /\ registry' = r.registry
           /\ phase' = IF r.ok THEN phase ELSE "failed"
           /\ pending' = IF r.ok THEN pending \ {cls} ELSE pending
    /\ UNCHANGED <<decl, regLog, logLen, view, store, shown, inv, serde, mirror, db>>

StartServing ==
    /\ phase = "startup"
    /\ "LogStream" \notin pending
    /\ phase' = "serving"
    /\ UNCHANGED <<registry, pending, decl, regLog, logLen, view, store, shown, inv, serde, mirror, db>>

----------------------------------------------------------------------------
(* Serving: the log grows, pages are loaded, callbacks are invoked *)

AppendLine ==
    /\ phase = "serving"
    /\ logLen < MaxLines
    /\ logLen' = logLen + 1
    /\ UNCHANGED <<phase, registry, pending, decl, regLog, view, store, shown, inv, serde, mirror, db>>

\* A validator that accepts every path.
check_path_exists_Any(path) == "ok"

\* Params(path=..., live=...): the path validator runs in the constructor.
check_path_exists(path) == IF path = LogPath THEN "ok" ELSE "InvalidPageParametersError"

\* A page load: the route is resolved, the page is built from the URL
\* parameters and rendered; the rendered stores go to the client.
LoadPage(s, route, path, live) ==
    /\ phase = "serving"
    /\ inv[s].st = "REGISTERED"
    /\ LET cls == get(registry, route)
           failed(err) ==
               /\ view' = [view EXCEPT ![s] =
                      [NoView EXCEPT !.route = route, !.path = path,
                                     !.cls = cls, !.result = err]]
               /\ store' = [store EXCEPT ![s] = NoStore]
               /\ mirror' = [mirror EXCEPT ![s] = NoMirror]
               /\ shown' = [shown EXCEPT ![s] = << >>]
       IN  IF cls # "LogStream"
           THEN failed(IF cls = "UnknownRouteError" THEN cls ELSE "NotImplementedError")
           ELSE IF check_path_exists(path) # "ok"
           THEN failed(check_path_exists(path))
           ELSE LET r == render(from_params(Params(path, live)), logLen)
                IN  /\ view' = [view EXCEPT ![s] =
                            [route |-> route, path |-> path, cls |-> cls, result |-> "ok",
                             store |-> r.store, lines |-> r.lines]]
                    /\ store' = [store EXCEPT ![s] = r.store]
                    /\ mirror' = [mirror EXCEPT ![s] = r.callback_stores]
                    /\ shown' = [shown EXCEPT ![s] = r.lines]
    /\ UNCHANGED <<phase, registry, pending, decl, regLog, logLen, inv, serde, db>>

\* REGISTERED -> RECEIVED: a request for the callback arrives with the client's
\* store on behalf of the current user.
Receive(s, principal) ==
    /\ phase = "serving"
    /\ store[s] # NoStore
    /\ inv[s].st = "REGISTERED"
    /\ Len(shown[s]) + MaxLines <= MaxShown
    /\ inv[s].calls < MaxCalls
    /\ inv' = [inv EXCEPT ![s] =
           [Idle(@.calls + 1) EXCEPT !.st = "RECEIVED", !.cid = inv[s].calls + 1,
                                     !.user = current_user_permissions(principal),
                                     !.anon = principal.anonymous,
                                     !.blob = store[s]]]
    /\ UNCHANGED <<phase, registry, pending, decl, regLog, logLen, view, store, shown, serde, mirror, db>>

PreHooksRun(s) == Len(inv[s].trace)

\* A pipeline in which a pre-hook that raises does not stop the invocation.
PreHook_Swallow(s) ==
    /\ inv[s].st = "RECEIVED"
    /\ PreHooksRun(s) < Len(decl.pre_hooks)
    /\ LET h == decl.pre_hooks[PreHooksRun(s) + 1]
           res == RunPreHook(h, decl.permissions, inv[s].user)
       IN  inv' = [inv EXCEPT ![s] =
               [@ EXCEPT !.trace = Append(@, h),
                         !.error = IF res = "ok" THEN "" ELSE res,
                         !.st = IF PreHooksRun(s) + 1 = Len(decl.pre_hooks)
                                THEN "PERMITTED" ELSE "RECEIVED"]]
    /\ UNCHANGED <<phase, registry, pending, decl, regLog, logLen, view, store, shown, serde, mirror, db>>

\* RECEIVED -> {RECEIVED, PERMITTED, REJECTED}: the next pre-hook runs.
PreHook(s) ==
    /\ inv[s].st = "RECEIVED"
    /\ PreHooksRun(s) < Len(decl.pre_hooks)
    /\ LET h == decl.pre_hooks[PreHooksRun(s) + 1]
           res == RunPreHook(h, decl.permissions, inv[s].user)
       IN  inv' = [inv EXCEPT ![s] =
               [@ EXCEPT !.trace = Append(@, h),
                         !.error = IF res = "ok" THEN "" ELSE res,
                         !.st = IF res # "ok" THEN "REJECTED"
                                ELSE IF PreHooksRun(s) + 1 = Len(decl.pre_hooks)
                                THEN "PERMITTED" ELSE "RECEIVED"]]
    /\ UNCHANGED <<phase, registry, pending, decl, regLog, logLen, view, store, shown, serde, mirror, db>>

\* PERMITTED -> RUNNING: the page instance of this request is rebuilt from the
\* store that came with it.
EnterBody(s) ==
    /\ inv[s].st = "PERMITTED"
    /\ inv' = [inv EXCEPT ![s] = [@ EXCEPT !.st = "RUNNING", !.page = from_store(inv[s].blob)]]
    /\ UNCHANGED <<phase, registry, pending, decl, regLog, logLen, view, store, shown, serde, mirror, db>>

\* RUNNING -> {SUCCEEDED, FAILED, IGNORED}: the method body runs, then the hooks
\* of its outcome; a success of a mutating callback commits the page's state. A
\* hook that raises ends the invocation with the hook's exception.
Body(s, fails) ==
    /\ inv[s].st = "RUNNING"
    /\ LET r == render_log_stream_content(inv[s].page, logLen, fails)
           hooks == CASE r.kind = "PreventUpdate" -> RunHooks(decl.ignore_hooks)
                      [] r.kind = "raise" -> RunHooks(decl.err_hooks)
                      [] r.kind = "return" -> RunHooks(decl.post_hooks)
           ran == [inv[s] EXCEPT !.outcome = r.kind,
                                 !.trace = @ \o << "body" >> \o hooks.ran]
       IN  CASE hooks.raised ->
                  /\ inv' = [inv EXCEPT ![s] =
                         [ran EXCEPT !.st = "FAILED",
                                     !.page = r.page,
                                     !.error = "HookError"]]
                  /\ UNCHANGED <<store, shown, mirror>>
             [] ~hooks.raised /\ r.kind = "PreventUpdate" ->
                  /\ inv' = [inv EXCEPT ![s] = [ran EXCEPT !.st = "IGNORED"]]
                  /\ UNCHANGED <<store, shown, mirror>>
             [] ~hooks.raised /\ r.kind = "raise" ->
                  /\ inv' = [inv EXCEPT ![s] =
                         [ran EXCEPT !.st = "FAILED",
                                     !.page = r.page,
                                     !.error = "Exception"]]
                  /\ UNCHANGED <<store, shown, mirror>>
             [] ~hooks.raised /\ r.kind = "return" ->
                  /\ inv' = [inv EXCEPT ![s] =
                         [ran EXCEPT !.st = "SUCCEEDED",
                                     !.page = r.page,
                                     !.out = r.lines,
                                     !.updated = TRUE]]
                  /\ shown' = [shown EXCEPT ![s] = @ \o r.lines]
                  /\ store' = [store EXCEPT ![s] =
                         IF decl.is_mutating THEN to_store(r.page) ELSE @]
                  /\ mirror' = [mirror EXCEPT ![s] =
                         IF decl.is_mutating
                         THEN [n \in CallbackStores |-> to_store(r.page)] ELSE @]
    /\ UNCHANGED <<phase, registry, pending, decl, regLog, logLen, view, serde, db>>

\* The request ends: its page instance and its invocation are gone.
Finish(s) ==
    /\ inv[s].st \in Terminal
    /\ inv' = [inv EXCEPT ![s] = Idle(@.calls)]
    /\ UNCHANGED <<phase, registry, pending, decl, regLog, logLen, view, store, shown, serde, mirror, db>>

----------------------------------------------------------------------------
(* Specifications *)

Startup ==
    \/ \E m \in MutatingArgs, pre \in PreHookLists, perm \in PermissionArgs :
           DeclareCallback(m, pre, perm)
    \/ \E cls \in PageClasses, route \in Routes : RegisterPage(cls, route)
    \/ StartServing

Serve(s) ==
    \/ \E route \in LookupRoutes, path \in {LogPath, MissingPath}, live \in BOOLEAN :
           LoadPage(s, route, path, live)
    \/ \E principal \in Principals : Receive(s, principal)
    \/ PreHook(s)
    \/ EnterBody(s)
    \/ \E fails \in BOOLEAN : Body(s, fails)
    \/ Finish(s)

\* The sessions that make requests.
Active == {"s1"}

Next == Startup \/ AppendLine \/ \E s \in Active : Serve(s)

Spec == Init /\ [][Next]_vars

\* A request is handled synchronously by its worker: once received, the hooks and
\* the body run to completion.
FairSpec ==
    /\ Spec
    /\ \A s \in Active :
           /\ WF_vars(PreHook(s))
           /\ WF_vars(EnterBody(s))
           /\ WF_vars(\E fails \in BOOLEAN : Body(s, fails))

----------------------------------------------------------------------------
(* Concurrent sessions of the LogStream page *)

\* The process after startup: LogStream is registered under its route with
\* render_log_stream_content declared as in the source.
ConcInit ==
    /\ phase = "serving"
    /\ registry = { <<LogStreamRoute, "LogStream">> }
    /\ pending = PageClasses \ {"LogStream"}
    /\ decl = mark_callback(TRUE, DEFAULT_REGISTRATION_HOOKS, DEFAULT_PRE_HOOKS,
                            DEFAULT_POST_HOOKS, DEFAULT_ERR_HOOKS,
                            DEFAULT_IGNORE_HOOKS, None)
    /\ regLog = DEFAULT_REGISTRATION_HOOKS
    /\ logLen = 0
    /\ view = [s \in Sessions |-> NoView]
    /\ store = [s \in Sessions |-> NoStore]
    /\ shown = [s \in Sessions |-> << >>]
    /\ inv = [s \in Sessions |-> Idle(0)]
    /\ serde = NoSerde
    /\ mirror = [s \in Sessions |-> NoMirror]
    /\ db = NoDb

\* The requests of one session of the LogStream page, made by a user who may
\* view it.
ConcServe(s) ==
    \/ \E live \in BOOLEAN : LoadPage(s, LogStreamRoute, LogPath, live)
    \/ Receive(s, User(Page_permissions))
    \/ PreHook(s)
    \/ EnterBody(s)
    \/ \E fails \in BOOLEAN : Body(s, fails)
    \/ Finish(s)

\* Requests of different sessions are handled by workers that interleave freely.
ConcNext == AppendLine \/ \E s \in Sessions : ConcServe(s)

ConcSpec == ConcInit /\ [][ConcNext]_vars

----------------------------------------------------------------------------
(* Callbacks declared with outcome hooks of the application *)

\* The process after startup, with render_log_stream_content declared with
\* post_hooks, err_hooks and ignore_hooks arguments.
HookInit ==
    /\ phase = "serving"
    /\ registry = { <<LogStreamRoute, "LogStream">> }
    /\ pending = PageClasses \ {"LogStream"}
    /\ \E m \in BOOLEAN, post \in PostHookLists, err \in ErrHookLists,
          ign \in IgnoreHookLists :
           decl = mark_callback(m, DEFAULT_REGISTRATION_HOOKS, DEFAULT_PRE_HOOKS,
                                post, err, ign, None)
    /\ regLog = DEFAULT_REGISTRATION_HOOKS
    /\ logLen = 0
    /\ view = [s \in Sessions |-> NoView]
    /\ store = [s \in Sessions |-> NoStore]
    /\ shown = [s \in Sessions |-> << >>]
    /\ inv = [s \in Sessions |-> Idle(0)]
    /\ serde = NoSerde
    /\ mirror = [s \in Sessions |-> NoMirror]
    /\ db = NoDb

HookNext == AppendLine \/ \E s \in Active : ConcServe(s)

HookSpec == HookInit /\ [][HookNext]_vars

----------------------------------------------------------------------------
(* UserService on the users table *)

MaxUsers == 2

MaxAltId == 2

Usernames == {"alice", "bob"}

Passwords == {"correct horse", "battery staple"}

\* werkzeug's generate_password_hash and check_password_hash: the hash is not the
\* password, and a hash checks against the password it was made from only.
generate_password_hash(password) == [method |-> "sha256", of |-> password]

check_password_hash(pwhash, password) == pwhash = generate_password_hash(password)

\* cursor.fetchone(): the first row of the result of a SELECT, or None.
fetchone(result) == IF result = << >> THEN None ELSE Some(result[1])

\* The userid "<id> <alt_id>", split at the space into its two integers.
UserId(id, alt_id) == << id, alt_id >>

UserService_get(rows, userid) ==
    LET Where(row) == row.id = userid[1] /\ row.alt_id = userid[2]
    IN  fetchone(SelectSeq(rows, Where))

UserService_find(rows, username, password, check_password) ==
    LET Where(row) == row.username = username
        result == fetchone(SelectSeq(rows, Where))
    IN  IF result.none THEN None
        ELSE IF check_password /\ ~check_password_hash(result.v.password, password)
        THEN None
        ELSE result

\* INSERT INTO users (alt_id, username, password) VALUES (0, ?, ?); the id is the
\* next row id. unique: the table has a UNIQUE constraint on username.
UserService_create(rows, unique, username, password) ==
    LET Where(row) == row.username = username
    IN  IF unique /\ SelectSeq(rows, Where) # << >>
        THEN [rows |-> rows, error |-> "IntegrityError"]
        ELSE [rows  |-> Append(rows, [id       |-> Len(rows) + 1,
                                      alt_id   |-> 0,
                                      username |-> username,
                                      password |-> generate_password_hash(password)]),
              error |-> ""]

\* changepw that sets the password and leaves alt_id as it is.
UserService_changepw_KeepAltId(rows, username, password) ==
    LET updated == [i \in DOMAIN rows |->
                       IF rows[i].username = username
                       THEN [rows[i] EXCEPT !.password = generate_password_hash(password)]
                       ELSE rows[i]]
    IN  [rows |-> updated,
         ret  |-> ~UserService_find(updated, username, password, TRUE).none]

\* UPDATE users SET password=?, alt_id = alt_id + 1 WHERE username=?; then
\* find(username, password) is not None.
UserService_changepw(rows, username, password) ==
    LET updated == [i \in DOMAIN rows |->
                       IF rows[i].username = username
                       THEN [rows[i] EXCEPT !.password = generate_password_hash(password),
                                            !.alt_id = @ + 1]
                       ELSE rows[i]]
    IN  [rows |-> updated,
         ret  |-> ~UserService_find(updated, username, password, TRUE).none]

\* An empty users table, with or without the UNIQUE constraint on username.
UserInit ==
    /\ phase = "startup"
    /\ registry = {}
    /\ pending = PageClasses
    /\ decl = Undeclared
    /\ regLog = << >>
    /\ logLen = 0
    /\ view = [s \in Sessions |-> NoView]
    /\ store = [s \in Sessions |-> NoStore]
    /\ shown = [s \in Sessions |-> << >>]
    /\ inv = [s \in Sessions |-> Idle(0)]
    /\ serde = NoSerde
    /\ mirror = [s \in Sessions |-> NoMirror]
    /\ \E unique \in BOOLEAN : db = [NoDb EXCEPT !.unique = unique]

UserUnchanged ==
    UNCHANGED <<phase, registry, pending, decl, regLog, logLen, view, store, shown, inv, serde, mirror>>

Create(username, password) ==
    /\ Len(db.rows) < MaxUsers
    /\ LET r == UserService_create(db.rows, db.unique, username, password)
       IN  db' = [db EXCEPT !.rows = r.rows,
                            !.last = [op |-> "create", username |-> username,
                                      password |-> password, ret |-> r.error]]
    /\ UserUnchanged

ChangePw(username, password) ==
    /\ \A i \in DOMAIN db.rows :
           db.rows[i].username = username => db.rows[i].alt_id < MaxAltId
    /\ LET r == UserService_changepw(db.rows, username, password)
       IN  db' = [db EXCEPT !.rows = r.rows,
                            !.last = [op |-> "changepw", username |-> username,
                                      password |-> password, ret |-> r.ret]]
    /\ UserUnchanged

Find(username, password, check_password) ==
    /\ db' = [db EXCEPT !.last =
                  [op |-> "find", username |-> username, password |-> password,
                   ret |-> UserService_find(db.rows, username, password, check_password)]]
    /\ UserUnchanged

GetUser(id, alt_id) ==
    /\ db' = [db EXCEPT !.last =
                  [op |-> "get", userid |-> UserId(id, alt_id),
                   ret |-> UserService_get(db.rows, UserId(id, alt_id))]]
    /\ UserUnchanged

UserNext ==
    \/ \E username \in Usernames, password \in Passwords : Create(username, password)
    \/ \E username \in Usernames, password \in Passwords : ChangePw(username, password)
    \/ \E username \in Usernames, password \in Passwords, check_password \in BOOLEAN :
           Find(username, password, check_password)
    \/ \E id \in 1 .. MaxUsers, alt_id \in 0 .. MaxAltId : GetUser(id, alt_id)

UserSpec == UserInit /\ [][UserNext]_vars

----------------------------------------------------------------------------
(* The serialization round trip on the classes of the test *)

MaxListLen == 2

Inner(x, y) == Construct("Inner", [x |-> x, y |-> y])

Outer(a, b, c) == Construct("Outer", [a |-> a, b |-> b, c |-> c])

\* o = Outer(1, Inner(x="1", y="2"), [Inner("3", "4")])
TestOuter == Outer(1, Inner("1", "2"), << Inner("3", "4") >>)

InnerValues == { Inner(x, y) : x \in {"1", "3"}, y \in {"2", "4"} }

InnerLists == UNION { [1 .. n -> InnerValues] : n \in 0 .. MaxListLen }

OuterValues == { Outer(a, b, c) : a \in 0 .. 1, b \in InnerValues, c \in InnerLists }

SerdeInit ==
    /\ phase = "startup"
    /\ registry = {}
    /\ pending = PageClasses
    /\ decl = Undeclared
    /\ regLog = << >>
    /\ logLen = 0
    /\ view = [s \in Sessions |-> NoView]
    /\ store = [s \in Sessions |-> NoStore]
    /\ shown = [s \in Sessions |-> << >>]
    /\ inv = [s \in Sessions |-> Idle(0)]
    /\ mirror = [s \in Sessions |-> NoMirror]
    /\ db = NoDb
    /\ \E v \in InnerValues \cup OuterValues :
           serde = [stage |-> "value", value |-> v, data |-> NoStore, out |-> NoPage]

Serialize ==
    /\ serde.stage = "value"
    /\ serde' = [serde EXCEPT !.stage = "data", !.data = serialize(serde.value)]
    /\ UNCHANGED <<phase, registry, pending, decl, regLog, logLen, view, store, shown, inv, mirror, db>>

Deserialize ==
    /\ serde.stage = "data"
    /\ serde' = [serde EXCEPT !.stage = "done",
                              !.out = deserialize(serde.value["cls"], serde.data)]
    /\ UNCHANGED <<phase, registry, pending, decl, regLog, logLen, view, store, shown, inv, mirror, db>>

SerdeNext == Serialize \/ Deserialize

SerdeSpec == SerdeInit /\ [][SerdeNext]_vars

----------------------------------------------------------------------------
(* Properties *)

Range(seq) == { seq[i] : i \in DOMAIN seq }

Count(seq, h) == Cardinality({ i \in DOMAIN seq : seq[i] = h })

InFlight(s) == inv[s].st # "REGISTERED"

BodyInvoked(s) == "body" \in Range(inv[s].trace)

\* The principal of session s's invocation is below the callback's required level.
BelowRequired(s) == InFlight(s) /\ ~decl.permissions.none /\ inv[s].user < decl.permissions.v

AtLeastRequired(s) == InFlight(s) /\ ~decl.permissions.none /\ inv[s].user >= decl.permissions.v

\* An invocation of a principal below the required level is rejected with
\* NotPermittedError before the body runs and leaves the store as it was.
Gated(s) ==
    /\ inv[s].st \in {"RECEIVED", "REJECTED"}
    /\ inv[s].st = "REJECTED" => inv[s].error = "NotPermittedError"
    /\ "ensure_permissions" \in Range(inv[s].trace) => inv[s].st = "REJECTED"
    /\ ~BodyInvoked(s)
    /\ store[s] = inv[s].blob

C2_CommitAtomicity ==
    \A s \in Sessions :
        (InFlight(s) /\ decl.is_mutating) =>
            /\ inv[s].st = "FAILED" => store[s] = inv[s].blob
            /\ inv[s].st = "SUCCEEDED" =>
                 /\ from_store(store[s]) = inv[s].page
                 /\ store[s].p = inv[s].blob.p
                 /\ store[s].s["stream"]["pos"] =
                        inv[s].blob.s["stream"]["pos"] + Len(inv[s].out)

C2_Witness ==
    /\ inv["s1"].st = "FAILED"
    /\ decl.is_mutating
    /\ inv["s1"].page # from_store(inv["s1"].blob)
    /\ inv["s1"].calls > 1
    /\ store["s1"].s["stream"]["pos"] > 0

\* C3: a body that signals ignore (render_log_stream_content, whenever
\* should_read() is false) runs every ignore-hook exactly once and no post-hook or
\* err-hook, updates no output and leaves the stored blob unchanged.
C3_IgnoreSemantics ==
    [][ \A s \in Sessions :
          (inv[s].st = "RUNNING" /\ inv'[s].st # "RUNNING") =>
              /\ inv'[s].st = "IGNORED" <=> ~should_read(inv[s].page.s["stream"], logLen)
              /\ inv'[s].st = "IGNORED" =>
                   /\ inv'[s].trace = inv[s].trace \o << "body" >> \o decl.ignore_hooks
                   /\ \A h \in Range(decl.ignore_hooks) : Count(inv'[s].trace, h) = 1
                   /\ \A h \in Range(decl.post_hooks) \cup Range(decl.err_hooks) :
                          Count(inv'[s].trace, h) = 0
                   /\ ~inv'[s].updated
                   /\ inv'[s].out = << >>
                   /\ shown'[s] = shown[s]
                   /\ store'[s] = store[s]
                   /\ store'[s] = inv[s].blob ]_vars

C3_Witness ==
    /\ inv["s1"].st = "IGNORED"
    /\ decl.is_mutating
    /\ logLen > 0

\* The transitions of one invocation.
Edges ==
    { <<"RECEIVED", "PERMITTED">>, <<"RECEIVED", "REJECTED">>, <<"PERMITTED", "RUNNING">>,
      <<"RUNNING", "SUCCEEDED">>, <<"RUNNING", "FAILED">>, <<"RUNNING", "IGNORED">> }

\* Every pre-hook of the declaration has run, in order, and none raised.
PreHooksCompleted(s) ==
    /\ Len(inv[s].trace) >= Len(decl.pre_hooks)
    /\ SubSeq(inv[s].trace, 1, Len(decl.pre_hooks)) = decl.pre_hooks
    /\ inv[s].st \in {"PERMITTED", "RUNNING"} => inv[s].error = ""
    /\ inv[s].error # "NotPermittedError"

\* C4: an invocation goes REGISTERED -> RECEIVED -> {PERMITTED, REJECTED},
\* PERMITTED -> RUNNING -> {SUCCEEDED, FAILED, IGNORED}; the body is entered only
\* after every pre-hook has completed without raising; no transition leaves a
\* terminal state; and every invocation reaches a terminal state.
C4_StateMachine ==
    /\ [][ \A s \in Sessions :
             LET a == inv[s]
                 b == inv'[s]
             IN  /\ (a.cid = 0 /\ b.cid # 0) => (a.st = "REGISTERED" /\ b.st = "RECEIVED")
                 /\ (a.cid # 0 /\ b.cid = a.cid) => (b.st = a.st \/ <<a.st, b.st>> \in Edges)
                 /\ (a.cid # 0 /\ b.cid # a.cid) => (a.st \in Terminal /\ b.cid = 0)
                 /\ (a.st \in Terminal /\ b.cid = a.cid) => b = a ]_vars
    /\ [](\A s \in Sessions :
             /\ inv[s].st \in {"PERMITTED", "RUNNING", "SUCCEEDED", "FAILED", "IGNORED"}
                    => PreHooksCompleted(s)
             /\ BodyInvoked(s) <=> inv[s].st \in {"SUCCEEDED", "FAILED", "IGNORED"}
             /\ inv[s].cid = 0 <=> inv[s].st = "REGISTERED")
    /\ \A s \in Active : (inv[s].cid # 0) ~> (inv[s].st \in Terminal)

C4_Witness ==
    /\ inv["s1"].st = "RUNNING"
    /\ ~decl.permissions.none
    /\ decl.pre_hooks = << "ensure_permissions", "log_received" >>

\* C5: deserialize(T, serialize(v)) = v for the instances of the serializable
\* classes, with nested serializable fields, list fields and the underscore field
\* that the constructor takes as y and stores as _y; the plain data keeps the
\* fields' declared names.
C5_RoundTrip ==
    /\ serde.stage \in {"data", "done"} =>
         /\ DOMAIN serde.data = FieldNames(serde.value["cls"])
         /\ serde.value["cls"] = "Inner" => serde.data["_y"] = serde.value["_y"]
         /\ serde.value["cls"] = "Outer" =>
              /\ serde.data["b"]["_y"] = serde.value["b"]["_y"]
              /\ Len(serde.data["c"]) = Len(serde.value["c"])
    /\ serde.stage = "done" => serde.out = serde.value

C5_Witness ==
    /\ serde.stage = "done"
    /\ serde.value = TestOuter
    /\ serde.value["a"] = 1 /\ serde.value["b"]["x"] = "1" /\ serde.value["b"]["_y"] = "2"
    /\ serde.data = [a |-> 1,
                     b |-> ("x" :> "1") @@ ("_y" :> "2"),
                     c |-> << ("x" :> "3") @@ ("_y" :> "4") >>]
    /\ serde.out = TestOuter

\* C6: from_store(p.to_store()) gives a page with the session state and the
\* params of p; it is built from the 's' and 'p' entries alone and does not go
\* through from_params, so the restored stream keeps its position.
C6_RestoreRoundTrip ==
    \A s \in Sessions :
        /\ inv[s].page # NoPage =>
             /\ from_store(to_store(inv[s].page)).s = inv[s].page.s
             /\ from_store(to_store(inv[s].page)).p = inv[s].page.p
        /\ inv[s].st = "RUNNING" =>
             /\ inv[s].page.s = deserialize("LogStream.SessionState", inv[s].blob.s)
             /\ inv[s].page.p = deserialize("LogStream.Params", inv[s].blob.p)
             /\ inv[s].page.s["stream"]["pos"] = inv[s].blob.s["stream"]["pos"]
             /\ to_store(inv[s].page) = inv[s].blob

C6_Witness ==
    /\ inv["s1"].st = "RUNNING"
    /\ inv["s1"].blob.s["stream"]["pos"] > 0
    /\ inv["s1"].page # from_params(inv["s1"].page.p)

\* C7: render() takes the store after get_elements(): the store of a rendered
\* LogStream page holds the stream position reached by the readlines() that
\* produced the rendered lines.
C7_RenderStoreLast ==
    \A s \in Sessions :
        view[s].result = "ok" =>
            /\ view[s].lines = LogLines(Len(view[s].lines))
            /\ view[s].store.s["stream"]["pos"] = Len(view[s].lines)
            /\ from_store(view[s].store).s["stream"]["pos"] = Len(view[s].lines)

C7_Witness ==
    /\ view["s1"].result = "ok"
    /\ Len(view["s1"].lines) = MaxLines

\* C8: get(route) returns the page class registered under route ('/log-stream'
\* resolves to LogStream), and for a route nothing was registered under it fails
\* with UnknownRouteError; lookups leave the route table as it is.
C8_RouteResolution ==
    /\ [](phase = "serving" => get(registry, "/log-stream") = "LogStream")
    /\ [](\A s \in Sessions :
             view[s].route # "" =>
                 IF \E c \in PageClasses : <<view[s].route, c>> \in registry
                 THEN <<view[s].route, view[s].cls>> \in registry
                 ELSE view[s].cls = "UnknownRouteError" /\ view[s].result = "UnknownRouteError")
    /\ [][phase = "serving" => registry' = registry]_vars

C8_Witness ==
    /\ view["s1"].route = "/unknown"
    /\ view["s1"].cls = "UnknownRouteError"
    /\ registry = { <<"/log-stream", "LogStream">>, <<"/other", "Page2">> }

\* A step in which a page class is registered, or its registration is refused.
RegistrationStep == pending' # pending \/ (phase = "startup" /\ phase' = "failed")

\* C9: registering under a route that already has a page is an error at
\* registration time and the table keeps the first binding; every route maps to at
\* most one page class and the table never loses an entry.
C9_DuplicateRejected ==
    /\ [](\A e1, e2 \in registry : e1[1] = e2[1] => e1 = e2)
    /\ [][ /\ registry \subseteq registry'
           /\ RegistrationStep =>
                \/ /\ phase' = "failed"
                   /\ registry' = registry
                   /\ pending' = pending
                \/ /\ phase' = phase
                   /\ \E e \in registry' \ registry :
                          /\ registry' = registry \cup {e}
                          /\ ~Registered(registry, e[1])
                          /\ pending' = pending \ {e[2]} ]_vars

C9_Witness ==
    /\ phase = "failed"
    /\ registry = { <<"/log-stream", "Page2">> }
    /\ "LogStream" \in pending

BelowPageLevel(s) == InFlight(s) /\ inv[s].user < Page_permissions

\* C11 as stated: with the default pre-hooks, an invocation is rejected when the
\* principal is below the callback's required level or below the page's required
\* level, so a callback that declares no level is rejected for every principal
\* below Page.permissions.
C11_PageLevelGate ==
    \A s \in Sessions :
        (/\ InFlight(s)
         /\ decl.pre_hooks = DEFAULT_PRE_HOOKS
         /\ (BelowRequired(s) \/ BelowPageLevel(s))) =>
            inv[s].st \in {"RECEIVED", "REJECTED"}

\* C11 amended: an invocation is rejected, with NotPermittedError, exactly when
\* ensure_permissions has run, the callback declares a required level and the
\* principal is below it; the page's level is not consulted, so a callback that
\* declares no level is rejected for no principal.
C11_CallbackLevelGate ==
    \A s \in Sessions :
        InFlight(s) =>
            /\ inv[s].st = "REJECTED" <=>
                   ("ensure_permissions" \in Range(inv[s].trace) /\ BelowRequired(s))
            /\ inv[s].st = "REJECTED" => inv[s].error = "NotPermittedError"
            /\ decl.permissions.none => inv[s].st # "REJECTED"

C11_Witness ==
    /\ inv["s1"].st = "SUCCEEDED"
    /\ decl.permissions.none
    /\ decl.pre_hooks = DEFAULT_PRE_HOOKS
    /\ BelowPageLevel("s1")

\* The invocation of session s is made without a principal.
Anonymous(s) == InFlight(s) /\ inv[s].anon

C13_ValidationFirst ==
    \A s \in Sessions :
        /\ (view[s].cls = "LogStream" /\ view[s].path = MissingPath) =>
               /\ view[s].result = "InvalidPageParametersError"
               /\ view[s].store = NoStore
               /\ view[s].lines = << >>
               /\ store[s] = NoStore
               /\ shown[s] = << >>
               /\ inv[s].st = "REGISTERED"
               /\ inv[s].page = NoPage
        /\ view[s].result = "ok" =>
               /\ check_path_exists(view[s].store.p["path"]) = "ok"
               /\ view[s].store.p["path"] = view[s].path
        /\ inv[s].page # NoPage => inv[s].page.p["path"] = LogPath

C13_Witness ==
    /\ view["s1"].cls = "LogStream"
    /\ view["s1"].path = MissingPath
    /\ view["s1"].result = "InvalidPageParametersError"
    /\ inv["s1"].calls > 0
    /\ logLen > 0

\* Something of session s changes in the step.
Touched(s) ==
    \/ inv'[s] # inv[s]
    \/ store'[s] # store[s]
    \/ shown'[s] # shown[s]
    \/ view'[s] # view[s]

\* The lines after position pos of a log of len lines.
LinesAfter(pos, len) == [i \in 1 .. (len - pos) |-> pos + i]

\* What the step of session s leaves is what the session's own request, handled
\* alone, leaves: it is determined by the store the request brought, the log and
\* the declaration.
AsAlone(s) ==
    LET a == inv[s]
        b == inv'[s]
        pos == a.blob.s["stream"]["pos"]
    IN  /\ (a.st = "REGISTERED" /\ b.st = "RECEIVED") => b.blob = store[s]
        /\ (a.st = "PERMITTED" /\ b.st = "RUNNING") =>
               /\ b.page.s["stream"]["pos"] = pos
               /\ \A f \in DOMAIN a.blob.p : b.page.p[f] = a.blob.p[f]
        /\ (a.st = "RUNNING" /\ b.st # "RUNNING") =>
               /\ b.st = "IGNORED" <=> pos >= logLen
               /\ b.st = "SUCCEEDED" =>
                      /\ b.out = LinesAfter(pos, logLen)
                      /\ shown'[s] = shown[s] \o LinesAfter(pos, logLen)
                      /\ store'[s].p = a.blob.p
                      /\ store'[s].s["stream"]["pos"] = logLen
               /\ b.st # "SUCCEEDED" => (store'[s] = a.blob /\ shown'[s] = shown[s])
        /\ view'[s] # view[s] =>
               (view'[s].result = "ok" =>
                    /\ view'[s].lines = LogLines(logLen)
                    /\ store'[s] = view'[s].store
                    /\ store'[s].s["stream"]["pos"] = logLen)

\* C14: in every interleaving of the requests of different sessions of the same
\* route, a step of one session changes nothing of another session, what it
\* leaves is what the session's request leaves when handled alone, and the route
\* table and the callback metadata are not written while serving.
C14_SessionIsolation ==
    [][ /\ registry' = registry
        /\ decl' = decl
        /\ \A s \in Sessions :
               Touched(s) =>
                   /\ \A t \in Sessions \ {s} : ~Touched(t)
                   /\ logLen' = logLen
                   /\ AsAlone(s) ]_vars

\* Both sessions are in the body of the callback at once, restored from
\* different stores of the same page.
C14_Witness ==
    /\ inv["s1"].st = "RUNNING"
    /\ inv["s2"].st = "RUNNING"
    /\ view["s1"].route = view["s2"].route
    /\ inv["s1"].blob # inv["s2"].blob
    /\ inv["s1"].page # inv["s2"].page

\* The number of pre-hooks that have run in the invocation of session s.
PreHooksStarted(s) ==
    IF BodyInvoked(s) THEN Len(decl.pre_hooks) ELSE Len(inv[s].trace)

\* C15: the pre-hooks run in their declared order (by default log_received, then
\* ensure_permissions) and stop at the first that raises: when a pre-hook raises
\* NotPermittedError no later pre-hook has run, the body is not invoked, no
\* post-hook, err-hook or ignore-hook runs, and NotPermittedError is the error of
\* the invocation.
C15_PreHookOrder ==
    \A s \in Sessions :
        InFlight(s) =>
            /\ PreHooksStarted(s) <= Len(decl.pre_hooks)
            /\ SubSeq(inv[s].trace, 1, PreHooksStarted(s)) =
                   SubSeq(decl.pre_hooks, 1, PreHooksStarted(s))
            /\ inv[s].error = "NotPermittedError" <=> inv[s].st = "REJECTED"
            /\ inv[s].st = "REJECTED" =>
                   /\ inv[s].trace[Len(inv[s].trace)] = "ensure_permissions"
                   /\ Count(inv[s].trace, "ensure_permissions") = 1
                   /\ ~BodyInvoked(s)
                   /\ Range(inv[s].trace) \cap
                          (Range(decl.post_hooks) \cup Range(decl.err_hooks)
                               \cup Range(decl.ignore_hooks)) = {}
                   /\ ~inv[s].updated
                   /\ store[s] = inv[s].blob
                   /\ decl.pre_hooks = DEFAULT_PRE_HOOKS =>
                          inv[s].trace = << "log_received", "ensure_permissions" >>

\* The permission check is declared first and raises: log_received has not run.
C15_Witness ==
    /\ inv["s1"].st = "REJECTED"
    /\ decl.pre_hooks = << "ensure_permissions", "log_received" >>
    /\ inv["s1"].trace = << "ensure_permissions" >>
    /\ inv["s1"].error = "NotPermittedError"

PostHookNames == {"log_success", "notify_success"}

ErrHookNames == {"log_err", "notify_err"}

IgnoreHookNames == {"log_ignore"}

\* The hooks that ran after the body in the invocation of session s.
OutcomeHooksRun(s) ==
    SubSeq(inv[s].trace, Len(decl.pre_hooks) + 2, Len(inv[s].trace))

HookRaised(s) == \E h \in Range(OutcomeHooksRun(s)) : HookRaises(h)

IsPrefix(a, b) == Len(a) <= Len(b) /\ a = SubSeq(b, 1, Len(a))

\* C16: after the body, the hooks of exactly one outcome run, in declared order:
\* on success every post-hook and no err-hook or ignore-hook; on an exception
\* other than the ignore signal every err-hook, no post-hook or ignore-hook, and
\* that exception is the error of the invocation; a hook that raises makes its
\* own exception the error of the invocation.
C16_OutcomeHooks ==
    \A s \in Sessions :
        BodyInvoked(s) =>
            /\ inv[s].outcome = "return" =>
                   /\ IsPrefix(OutcomeHooksRun(s), decl.post_hooks)
                   /\ Range(OutcomeHooksRun(s)) \cap (ErrHookNames \cup IgnoreHookNames) = {}
                   /\ ~HookRaised(s) =>
                          /\ inv[s].st = "SUCCEEDED"
                          /\ OutcomeHooksRun(s) = decl.post_hooks
                          /\ PostHookNames \cap Range(OutcomeHooksRun(s)) # {}
                          /\ inv[s].error = ""
            /\ inv[s].outcome = "raise" =>
                   /\ IsPrefix(OutcomeHooksRun(s), decl.err_hooks)
                   /\ Range(OutcomeHooksRun(s)) \cap (PostHookNames \cup IgnoreHookNames) = {}
                   /\ inv[s].st = "FAILED"
                   /\ ~HookRaised(s) =>
                          /\ OutcomeHooksRun(s) = decl.err_hooks
                          /\ ErrHookNames \cap Range(OutcomeHooksRun(s)) # {}
                          /\ inv[s].error = "Exception"
            /\ inv[s].outcome = "PreventUpdate" =>
                   /\ IsPrefix(OutcomeHooksRun(s), decl.ignore_hooks)
                   /\ Range(OutcomeHooksRun(s)) \cap (PostHookNames \cup ErrHookNames) = {}
                   /\ ~HookRaised(s) =>
                          /\ inv[s].st = "IGNORED"
                          /\ OutcomeHooksRun(s) = decl.ignore_hooks
            /\ HookRaised(s) =>
                   /\ inv[s].st = "FAILED"
                   /\ inv[s].error = "HookError"
                   /\ HookRaises(inv[s].trace[Len(inv[s].trace)])
                   /\ store[s] = inv[s].blob
            /\ inv[s].st = "SUCCEEDED" => ~HookRaised(s) /\ inv[s].outcome = "return"

\* The body raised and the second err-hook raised in turn: the third did not run
\* and the hook's exception is the error.
C16_Witness ==
    /\ inv["s1"].st = "FAILED"
    /\ inv["s1"].outcome = "raise"
    /\ decl.err_hooks = << "log_err", "faulty_hook", "notify_err" >>
    /\ OutcomeHooksRun("s1") = << "log_err", "faulty_hook" >>
    /\ inv["s1"].error = "HookError"

\* The declaration of the step is one that gives no mutating argument.
DeclaredWithoutMutating ==
    /\ ~decl.is_callback
    /\ decl'.is_callback
    /\ decl' = mark_callback(callback_mutating(None), decl'.registration_hooks,
                             decl'.pre_hooks, decl'.post_hooks, decl'.err_hooks,
                             decl'.ignore_hooks, decl'.permissions)

\* C17: a callback declared without a mutating argument is mutating; a callback
\* declared with mutating=False leaves the stored blob as it was before the call
\* on every outcome, success included, while its return value is still delivered
\* to the outputs.
C17_MutationFlag ==
    /\ [][DeclaredWithoutMutating => decl'.is_mutating]_vars
    /\ [](\A s \in Sessions :
             (InFlight(s) /\ ~decl.is_mutating) =>
                 /\ store[s] = inv[s].blob
                 /\ inv[s].st = "SUCCEEDED" =>
                        /\ inv[s].updated
                        /\ inv[s].out =
                               LinesAfter(inv[s].blob.s["stream"]["pos"],
                                          inv[s].page.s["stream"]["pos"])
                        /\ inv[s].out # << >>
                        /\ inv[s].page.s["stream"]["pos"] <= logLen)

C17_Witness ==
    /\ inv["s1"].st = "SUCCEEDED"
    /\ ~decl.is_mutating
    /\ Len(inv["s1"].out) > 0
    /\ to_store(inv["s1"].page) # store["s1"]
    /\ store["s1"] = inv["s1"].blob

\* C18: after render() and after every successful mutating callback the store
\* named by _store_name and every store named in _callback_stores hold the same
\* {s, p} snapshot; no state has two stores of one page with different data, and
\* after a rejected, failed or ignored invocation all of them hold the snapshot
\* the request brought.
C18_MirroredStores ==
    \A s \in Sessions :
        /\ \A n \in CallbackStores : mirror[s][n] = store[s]
        /\ view[s].result = "ok" => store[s] # NoStore
        /\ (InFlight(s) /\ inv[s].st \in {"REJECTED", "FAILED", "IGNORED"}) =>
               \A n \in CallbackStores : mirror[s][n] = inv[s].blob
        /\ (InFlight(s) /\ inv[s].st = "SUCCEEDED" /\ decl.is_mutating) =>
               \A n \in CallbackStores : mirror[s][n] = to_store(inv[s].page)

\* A successful mutating callback has moved every store of the page past the
\* snapshot that render() left.
C18_Witness ==
    /\ inv["s1"].st = "SUCCEEDED"
    /\ decl.is_mutating
    /\ view["s1"].store.s["stream"]["pos"] > 0
    /\ store["s1"] # view["s1"].store
    /\ \A n \in CallbackStores : mirror["s1"][n] = store["s1"]

\* C19: for a session of the LogStream page (from_params, one render, then
\* render_log_stream_content callbacks, each restored from the store the previous
\* step committed), the lines returned so far are the first lines of the log, in
\* order, each once, and the stored position is their number; an ignored or
\* failed callback does not move the stored position.
C19_ExactlyOnce ==
    \A s \in Sessions :
        (phase = "serving" /\ decl.is_mutating /\ store[s] # NoStore) =>
            /\ shown[s] = LogLines(Len(shown[s]))
            /\ Len(shown[s]) <= logLen
            /\ store[s].s["stream"]["pos"] = Len(shown[s])
            /\ InFlight(s) =>
                   /\ inv[s].blob.s["stream"]["pos"] <= store[s].s["stream"]["pos"]
                   /\ inv[s].st \in {"IGNORED", "FAILED", "REJECTED"} =>
                          store[s].s["stream"]["pos"] = inv[s].blob.s["stream"]["pos"]
                   /\ inv[s].st = "SUCCEEDED" =>
                          /\ inv[s].out # << >>
                          /\ shown[s] = LogLines(inv[s].blob.s["stream"]["pos"]) \o inv[s].out

\* The render returned the first line, a callback returned nothing, and the next
\* callback returned the second line.
C19_Witness ==
    /\ view["s1"].lines = << 1 >>
    /\ inv["s1"].st = "SUCCEEDED"
    /\ inv["s1"].calls = MaxCalls
    /\ inv["s1"].out = << 2 >>
    /\ shown["s1"] = << 1, 2 >>
    /\ decl.is_mutating

\* The step is a call of changepw.
ChangePwStep == db'.last.op = "changepw" /\ db' # db

\* C20: changepw on an existing user adds exactly 1 to that user's alt_id and
\* sets the password, so get with the id and any alt_id issued before returns
\* None, get with the id and the new alt_id returns the user, and changepw returns
\* True; changepw on a username that does not exist changes no row and returns
\* False; no call makes an alt_id smaller.
C20_AltIdRotation ==
    [][ /\ Len(db'.rows) >= Len(db.rows)
        /\ \A i \in DOMAIN db.rows :
               /\ db'.rows[i].id = db.rows[i].id
               /\ db'.rows[i].alt_id >= db.rows[i].alt_id
        /\ ChangePwStep =>
               LET username == db'.last.username
                   password == db'.last.password
                   named == { i \in DOMAIN db.rows : db.rows[i].username = username }
               IN  /\ DOMAIN db'.rows = DOMAIN db.rows
                   /\ db'.last.ret = (named # {})
                   /\ named = {} => db'.rows = db.rows
                   /\ \A i \in DOMAIN db.rows \ named : db'.rows[i] = db.rows[i]
                   /\ \A i \in named :
                          /\ db'.rows[i].alt_id = db.rows[i].alt_id + 1
                          /\ db'.rows[i].username = username
                          /\ check_password_hash(db'.rows[i].password, password)
                          /\ \A old \in 0 .. db.rows[i].alt_id :
                                 UserService_get(db'.rows, UserId(db.rows[i].id, old)) = None
                          /\ UserService_get(db'.rows,
                                 UserId(db.rows[i].id, db'.rows[i].alt_id)) = Some(db'.rows[i])
      ]_vars

\* A user whose password was changed twice, next to one whose password was never
\* changed.
C20_Witness ==
    /\ db.last.op = "changepw"
    /\ db.last.ret
    /\ Len(db.rows) = 2
    /\ db.rows[1].alt_id >= 2
    /\ db.rows[2].alt_id = 0
    /\ db.rows[1].username = db.last.username

====
